---- MODULE Spec2Model ----
(***************************************************************************)
(* A model of point_cloud.py: the Python front end that marshals numpy     *)
(* arrays into the PCL engine library and applies index-aligned filters    *)
(* and rigid transforms to point clouds and their normals.                 *)
(*                                                                         *)
(* Arrays are sequences of rows; a row is a tuple of float values.  A      *)
(* float value is an integer, with three reserved codes for the IEEE       *)
(* special values.  All finite values of the model are small integers,     *)
(* which float32 and float64 both hold exactly.                            *)
(***************************************************************************)
EXTENDS Integers, Sequences, FiniteSets, TLC

VARIABLES
  op,         \* name of the public function called last ("none" at start)
  cloud,      \* the caller's cloud array (contents)
  normals,    \* the caller's normals array, optional
  viewPoints, \* the caller's viewPoints array, optional
  contig,     \* TRUE iff the caller's cloud is already C-contiguous float32
  params,     \* scalar / small arguments of the last call
  events,     \* engine-boundary events of the last call, in program order
  engOut,     \* contents of the engine's output buffer in the last call
  result,     \* what the last call returned
  exc,        \* the exception the last call raised ("" if none)
  ledger,     \* one record per output handle of a successful engine call
  pCloud,     \* pipeline: current cloud
  pNormals,   \* pipeline: current normals, optional
  origCloud,  \* pipeline: the cloud the pipeline started from
  origNormals,\* pipeline: the normals the pipeline started from
  stages,     \* pipeline: the stages applied so far, in order
  given       \* the contents of the caller's arrays when the caller made them

pipeVars == <<pCloud, pNormals, origCloud, origNormals, stages>>
vars == <<op, cloud, normals, viewPoints, contig, params, events, engOut,
          result, exc, ledger, pCloud, pNormals, origCloud, origNormals, stages,
          given>>

(***************************************************************************)
(* Bounds of the model.                                                    *)
(***************************************************************************)
MaxPoints == 2
MaxOut == 2
MaxHandles == 2
MaxStages == 3

(***************************************************************************)
(* Float values.                                                           *)
(***************************************************************************)
NaN == 99
PInf == 98
NInf == -98

isnan(v) == v = NaN
isinf(v) == v = PInf \/ v = NInf
IsFinite(v) == ~isnan(v) /\ ~isinf(v)

\* a >= b on floats: any comparison with NaN is False
Ge(a, b) == ~isnan(a) /\ ~isnan(b) /\ a >= b
Le(a, b) == ~isnan(a) /\ ~isnan(b) /\ a <= b
Lt(a, b) == ~isnan(a) /\ ~isnan(b) /\ a < b

Neg(a) == IF isnan(a) THEN NaN ELSE -a

Add(a, b) ==
  IF isnan(a) \/ isnan(b) THEN NaN
  ELSE IF isinf(a) /\ isinf(b) THEN (IF a = b THEN a ELSE NaN)
  ELSE IF isinf(a) THEN a
  ELSE IF isinf(b) THEN b
  ELSE a + b

Sub(a, b) == Add(a, Neg(b))

Mul(a, b) ==
  IF isnan(a) \/ isnan(b) THEN NaN
  ELSE IF isinf(a) \/ isinf(b)
       THEN (IF a = 0 \/ b = 0 THEN NaN
             ELSE IF (a > 0) = (b > 0) THEN PInf ELSE NInf)
  ELSE a * b

(***************************************************************************)
(* Optional arguments (None in Python).                                    *)
(***************************************************************************)
None == [some |-> FALSE, v |-> <<>>]
Some(a) == [some |-> TRUE, v |-> a]

(***************************************************************************)
(* numpy indexing helpers.                                                 *)
(***************************************************************************)
\* a[mask] for a boolean mask with one entry per row: a new array holding the
\* rows whose mask entry is True, in order
RECURSIVE BoolIndex(_, _)
BoolIndex(a, mask) ==
  IF a = <<>> THEN <<>>
  ELSE (IF Head(mask) THEN <<Head(a)>> ELSE <<>>) \o BoolIndex(Tail(a), Tail(mask))

\* x.any(axis=1) over an n x 3 boolean array given by a per-value test
AnyAxis1Nan(a) == [i \in 1..Len(a) |-> \E j \in 1..Len(a[i]) : isnan(a[i][j])]
AnyAxis1Inf(a) == [i \in 1..Len(a) |-> \E j \in 1..Len(a[i]) : isinf(a[i][j])]

(***************************************************************************)
(* FilterNans (lines 104-112).                                             *)
(***************************************************************************)
FilterNansAllNan(cloudIn) ==
  BoolIndex(cloudIn, [i \in 1..Len(cloudIn) |->
                        ~(\A j \in 1..3 : isnan(cloudIn[i][j]))])

FilterNans(cloudIn) ==
  LET mask == [i \in 1..Len(cloudIn) |-> ~AnyAxis1Nan(cloudIn)[i]]
  IN  BoolIndex(cloudIn, mask)

(***************************************************************************)
(* FilterNearAndFarPoints (lines 114-130).  axis is a 0-based column.      *)
(***************************************************************************)
NearFarMask(axis, minDist, maxDist, cloudIn) ==
  [i \in 1..Len(cloudIn) |->
     Ge(cloudIn[i][axis + 1], minDist) /\ Le(cloudIn[i][axis + 1], maxDist)]

FilterNearAndFarPointsKeepNormals(axis, minDist, maxDist, cloudIn, normalsIn) ==
  [cloud |-> BoolIndex(cloudIn, NearFarMask(axis, minDist, maxDist, cloudIn)),
   normals |-> normalsIn]

FilterNearAndFarPoints(axis, minDist, maxDist, cloudIn, normalsIn) ==
  LET mask == NearFarMask(axis, minDist, maxDist, cloudIn)
  IN  [cloud |-> BoolIndex(cloudIn, mask),
       normals |-> IF ~normalsIn.some THEN None
                   ELSE Some(BoolIndex(normalsIn.v, mask))]

(***************************************************************************)
(* FilterWorkspace (lines 132-148).  workspace is <<<<minX, maxX>>,        *)
(* <<minY, maxY>>, <<minZ, maxZ>>>>.                                       *)
(***************************************************************************)
WorkspaceMask(workspace, cloudIn) ==
  [i \in 1..Len(cloudIn) |->
     /\ Ge(cloudIn[i][1], workspace[1][1]) /\ Le(cloudIn[i][1], workspace[1][2])
     /\ Ge(cloudIn[i][2], workspace[2][1]) /\ Le(cloudIn[i][2], workspace[2][2])
     /\ Ge(cloudIn[i][3], workspace[3][1]) /\ Le(cloudIn[i][3], workspace[3][2])]

FilterWorkspaceLowerOnly(workspace, cloudIn, normalsIn) ==
  LET mask == [i \in 1..Len(cloudIn) |->
                 /\ Ge(cloudIn[i][1], workspace[1][1])
                 /\ Ge(cloudIn[i][2], workspace[2][1])
                 /\ Ge(cloudIn[i][3], workspace[3][1])]
  IN  [cloud |-> BoolIndex(cloudIn, mask),
       normals |-> IF ~normalsIn.some THEN None
                   ELSE Some(BoolIndex(normalsIn.v, mask))]

FilterWorkspace(workspace, cloudIn, normalsIn) ==
  LET mask == WorkspaceMask(workspace, cloudIn)
  IN  [cloud |-> BoolIndex(cloudIn, mask),
       normals |-> IF ~normalsIn.some THEN None
                   ELSE Some(BoolIndex(normalsIn.v, mask))]

(***************************************************************************)
(* Transform (lines 259-275).  T is a 4 x 4 matrix, a tuple of rows.       *)
(***************************************************************************)
\* one entry of dot(A, x): the sum over k of A[r][k] * x[k]
RECURSIVE DotRow(_, _, _)
DotRow(row, x, k) ==
  IF k = 0 THEN 0
  ELSE IF k = 1 THEN Mul(row[1], x[1])
  ELSE Add(DotRow(row, x, k - 1), Mul(row[k], x[k]))

\* column i of dot(T, vstack((cloud.T, ones(n)))), rows 0:3
TransformPoint(T, p) ==
  LET X == <<p[1], p[2], p[3], 1>>
  IN  [r \in 1..3 |-> DotRow(T[r], X, 4)]

\* column i of dot(T[0:3, 0:3], normals.T)
RotateNormal(T, n) == [r \in 1..3 |-> DotRow(T[r], n, 3)]

Transform(T, cloudIn, normalsIn) ==
  LET X == [i \in 1..Len(cloudIn) |-> TransformPoint(T, cloudIn[i])]
  IN  [cloud |-> X,
       normals |-> IF ~normalsIn.some THEN None
                   ELSE Some([i \in 1..Len(normalsIn.v) |->
                                RotateNormal(T, normalsIn.v[i])])]

(***************************************************************************)
(* The engine boundary.  An event records one call across it: the C        *)
(* function, the output handle it concerns (0 if none), the row count      *)
(* passed or allocated, the status the engine returned, and a file name.   *)
(***************************************************************************)
Ev(call, h, n, status, file) ==
  [call |-> call, h |-> h, n |-> n, status |-> status, file |-> file]

\* status codes of the engine: negative is failure
StatusCodes == {-2, -1, 0}

\* CopyAndFree(src, dst, n): the first n rows of the engine buffer, which the
\* engine then frees
CopyAndFree(buffer, n) == [i \in 1..n |-> buffer[i]]

NoResult == [returned |-> FALSE, a |-> <<>>, b |-> None]
Returned(a, b) == [returned |-> TRUE, a |-> a, b |-> b]

Outcome(ev, res, e, mem) == [events |-> ev, result |-> res, exc |-> e, mem |-> mem]

(***************************************************************************)
(* Memory.  mem maps the name of an array object to its contents: the      *)
(* caller's arrays (cloud, normals, viewPoints, T) and the arrays a call   *)
(* allocates (tmp, out, pc).  A local variable of the code is a reference  *)
(* (a name) into mem, so that aliasing and in-place stores are visible.    *)
(***************************************************************************)
Write(mem, ref, val) == [mem EXCEPT ![ref] = val]

\* ascontiguousarray(a, dtype='float32'): a itself when it is already a
\* C-contiguous float32 array, else a converted copy
AsContiguousRef(ref, isContig) == IF isContig THEN ref ELSE "tmp"
AsContiguousMem(mem, ref, isContig) ==
  IF isContig THEN mem ELSE Write(mem, "tmp", mem[ref])

\* empty((n, 3)): a new array object
EmptyRef(inRef) == "out"

\* viewPoints - cloud: a new array object holding the difference
DiffRefInPlace(aRef) == aRef
DiffRef(aRef) == "pc"

(***************************************************************************)
(* SavePcd (lines 241-248) and SaveOrganizedPcd (lines 250-257).           *)
(***************************************************************************)
SavePcd(fileName, mem, ref, isContig, status) ==
  LET cRef == AsContiguousRef(ref, isContig)
      mem1 == AsContiguousMem(mem, ref, isContig)
      ev   == <<Ev("PclSavePcd", 0, Len(mem1[cRef]), status, fileName)>>
  IN  IF status < 0 THEN Outcome(ev, NoResult, "SaveFailed", mem1)
      ELSE Outcome(ev, NoResult, "", mem1)

SaveOrganizedPcd(fileName, mem, isContig, height, width, status) ==
  LET cRef == AsContiguousRef("cloud", isContig)
      mem1 == AsContiguousMem(mem, "cloud", isContig)
      ev   == <<Ev("PclSaveOrganizedPcd", 0, Len(mem1[cRef]), status, fileName)>>
  IN  IF status < 0 THEN Outcome(ev, NoResult, "SaveFailed", mem1)
      ELSE Outcome(ev, NoResult, "", mem1)

(***************************************************************************)
(* LoadPcd (lines 162-181).  h is the output handle, buffer its contents.  *)
(***************************************************************************)
LoadPcdNoCopy(fileName, mem, h, status, buffer) ==
  LET nPoints == Len(buffer)
      ev1 == <<Ev("PclLoadPcd", h, nPoints, status, fileName)>>
  IN  IF status < 0 THEN Outcome(ev1, NoResult, "LoadFailed", mem)
      ELSE Outcome(ev1 \o <<Ev("empty", 0, nPoints, 0, "")>>,
                   Returned([i \in 1..nPoints |-> <<0, 0, 0>>], None), "", mem)

LoadPcd(fileName, mem, h, status, buffer) ==
  LET nPoints == Len(buffer)
      ev1 == <<Ev("PclLoadPcd", h, nPoints, status, fileName)>>
  IN  IF status < 0 THEN Outcome(ev1, NoResult, "LoadFailed", mem)
      ELSE LET oRef == EmptyRef("cloud")
               ev2  == ev1 \o <<Ev("empty", 0, nPoints, 0, ""),
                                Ev("CopyAndFree", h, nPoints, 0, "")>>
               mem1 == Write(mem, oRef, CopyAndFree(buffer, nPoints))
           IN  Outcome(ev2, Returned(mem1[oRef], None), "", mem1)

(***************************************************************************)
(* Voxelize (lines 303-323), RemoveStatisticalOutliers (lines 325-346),    *)
(* SegmentPlane (lines 348-367).  None of them reads the engine's status:  *)
(* after a failed engine call they still read the out-parameters and pass  *)
(* the pointer found there to CopyAndFree / CopyAndFreeInt.  That pointer  *)
(* is not a buffer the engine allocated for the call, so the copy-and-free *)
(* is undefined: the process may abort in it (nothing is returned), or it  *)
(* may return, with whatever count and rows were found behind the          *)
(* out-parameters.  buffer is what is found there; aborts says which of    *)
(* the two happens, and is FALSE after a successful engine call.           *)
(***************************************************************************)
\* what the copy-and-free of a failed call's pointer may do
FreeAborts(status) == IF status < 0 THEN BOOLEAN ELSE {FALSE}

Voxelize(mem, isContig, voxelSize, h, status, buffer, aborts) ==
  LET cRef == AsContiguousRef("cloud", isContig)
      mem1 == AsContiguousMem(mem, "cloud", isContig)
      nPoints == Len(buffer)
      oRef == EmptyRef(cRef)
      ev   == <<Ev("PclVoxelize", h, nPoints, status, ""),
                Ev("empty", 0, nPoints, 0, ""),
                Ev("CopyAndFree", h, nPoints, 0, "")>>
      mem2 == Write(mem1, oRef, CopyAndFree(buffer, nPoints))
  IN  IF aborts THEN Outcome(ev, NoResult, "Aborted", mem1)
      ELSE Outcome(ev, Returned(mem2[oRef], None), "", mem2)

RemoveStatisticalOutliers(mem, isContig, meanK, stddevMulThresh, h, status, buffer, aborts) ==
  LET cRef == AsContiguousRef("cloud", isContig)
      mem1 == AsContiguousMem(mem, "cloud", isContig)
      nPoints == Len(buffer)
      oRef == EmptyRef(cRef)
      ev   == <<Ev("PclRemoveStatisticalOutliers", h, nPoints, status, ""),
                Ev("empty", 0, nPoints, 0, ""),
                Ev("CopyAndFree", h, nPoints, 0, "")>>
      mem2 == Write(mem1, oRef, CopyAndFree(buffer, nPoints))
  IN  IF aborts THEN Outcome(ev, NoResult, "Aborted", mem1)
      ELSE Outcome(ev, Returned(mem2[oRef], None), "", mem2)

SegmentPlane(mem, isContig, distanceThreshold, h, status, buffer, aborts) ==
  LET cRef == AsContiguousRef("cloud", isContig)
      mem1 == AsContiguousMem(mem, "cloud", isContig)
      nIndices == Len(buffer)
      oRef == EmptyRef(cRef)
      ev   == <<Ev("PclSegmentPlane", h, nIndices, status, ""),
                Ev("empty", 0, nIndices, 0, ""),
                Ev("CopyAndFreeInt", h, nIndices, 0, "")>>
      mem2 == Write(mem1, oRef, CopyAndFree(buffer, nIndices))
  IN  IF aborts THEN Outcome(ev, NoResult, "Aborted", mem1)
      ELSE Outcome(ev, Returned(mem2[oRef], None), "", mem2)

(***************************************************************************)
(* ComputeNormals (lines 59-102).                                          *)
(***************************************************************************)
\* the mask of line 86: rows with any NaN or any Inf component
SanitizeMaskNanOnly(a) == AnyAxis1Nan(a)
SanitizeMask(a) == [i \in 1..Len(a) |-> AnyAxis1Nan(a)[i] \/ AnyAxis1Inf(a)[i]]

\* norm(pc, axis=1) for one row.  A finite row is represented by its squared
\* length, which is zero, positive and finite exactly when the length is.
Norm(row) ==
  IF \E j \in 1..3 : isnan(row[j]) THEN NaN
  ELSE IF \E j \in 1..3 : isinf(row[j]) THEN PInf
  ELSE row[1] * row[1] + row[2] * row[2] + row[3] * row[3]

\* one component of pc /= pcMag.  Division by a positive finite length keeps
\* the sign and the finiteness of every component, so the component is kept
\* up to that positive factor; the special cases are IEEE's.
DivMag(c, mag) ==
  IF isnan(c) \/ isnan(mag) THEN NaN
  ELSE IF isinf(mag) THEN (IF isinf(c) THEN NaN ELSE 0)
  ELSE IF mag = 0 THEN (IF c = 0 THEN NaN ELSE IF c > 0 THEN PInf ELSE NInf)
  ELSE c

ComputeNormals(mem, isContig, hasView, h, status, buffer, save1, save2) ==
  LET cRef == AsContiguousRef("cloud", isContig)
      mem1 == AsContiguousMem(mem, "cloud", isContig)
      n    == Len(mem1[cRef])
      ev1  == <<Ev("PclComputeNormals", h, n, status, "")>>
  IN
  IF status = -1 THEN Outcome(ev1, NoResult, "InvalidArgument", mem1)
  ELSE IF status = -2 THEN Outcome(ev1, NoResult, "SizeMismatch", mem1)
  ELSE
    LET nRef == EmptyRef(cRef)
        ev2  == ev1 \o <<Ev("empty", 0, n, 0, ""), Ev("CopyAndFree", h, n, 0, "")>>
        mem2 == Write(mem1, nRef, CopyAndFree(buffer, n))
        mask == SanitizeMask(mem2[nRef])
        mem3 == Write(mem2, nRef,
                  [i \in 1..n |-> IF mask[i] THEN <<1, 0, 0>> ELSE mem2[nRef][i]])
    IN
    IF ~hasView THEN Outcome(ev2, Returned(mem3[nRef], None), "", mem3)
    ELSE
      LET pcRef == DiffRef("viewPoints")
          mem4  == Write(mem3, pcRef,
                     [i \in 1..n |-> [j \in 1..3 |->
                        Sub(mem3["viewPoints"][i][j], mem3[cRef][i][j])]])
          pcMag == [i \in 1..n |-> Norm(mem4[pcRef][i])]
          mem5  == Write(mem4, pcRef,
                     [i \in 1..n |-> [j \in 1..3 |->
                        DivMag(mem4[pcRef][i][j], pcMag[i])]])
          theta == [i \in 1..n |-> DotRow(mem5[pcRef][i], mem5[nRef][i], 3)]
          flip  == [i \in 1..n |-> Lt(theta[i], 0)]
      IN
      IF \E i \in 1..n : isnan(theta[i])
      THEN LET s1 == SavePcd("cloud_error.pcd", mem5, cRef, TRUE, save1)
           IN  IF s1.exc # ""
               THEN Outcome(ev2 \o s1.events, NoResult, s1.exc, s1.mem)
               ELSE LET s2 == SavePcd("normals_error.pcd", s1.mem, nRef, TRUE, save2)
                    IN  IF s2.exc # ""
                        THEN Outcome(ev2 \o s1.events \o s2.events, NoResult,
                                     s2.exc, s2.mem)
                        ELSE Outcome(ev2 \o s1.events \o s2.events, NoResult,
                                     "ThetaInvalid", s2.mem)
      ELSE LET mem6 == Write(mem5, nRef,
                         [i \in 1..n |-> IF flip[i]
                                         THEN [j \in 1..3 |-> Neg(mem5[nRef][i][j])]
                                         ELSE mem5[nRef][i]])
           IN  Outcome(ev2, Returned(mem6[nRef], None), "", mem6)

(***************************************************************************)
(* Inputs of the model.                                                    *)
(***************************************************************************)
Points == {<<0, 0, 0>>, <<NaN, 1, 0>>, <<2, PInf, 0>>}
Clouds == UNION {[1..n -> Points] : n \in 0..MaxPoints}

\* the normals the caller holds for a cloud of n points (distinct per index)
NormalsFor(n) == [i \in 1..n |-> <<0, 1, i>>]

\* viewpoints: one sensor origin for every point
ViewOrigins == {<<0, 0, 0>>, <<0, 0, 2>>}

\* what the engine can put in an output buffer
EngNormalVecs == {<<0, 0, 1>>, <<0, 0, -1>>, <<NaN, 0, 0>>, <<0, PInf, 0>>}
EngClouds == {[i \in 1..n |-> <<1, 1, i>>] : n \in 0..MaxOut}
EngIndices == {[i \in 1..n |-> <<i - 1>>] : n \in 0..MaxOut}
SaveCodes == {-1, 0}

Identity4 == <<<<1, 0, 0, 0>>, <<0, 1, 0, 0>>, <<0, 0, 1, 0>>, <<0, 0, 0, 1>>>>
\* rotation by 90 degrees about z, then translation by (1, 0, 2)
RotTrans4 == <<<<0, -1, 0, 1>>, <<1, 0, 0, 0>>, <<0, 0, 1, 2>>, <<0, 0, 0, 1>>>>
Transforms == {Identity4, RotTrans4}

Ranges == {<<0, 0, 1>>, <<1, 0, 1>>, <<0, 1, 2>>}      \* <<axis, minDist, maxDist>>
Workspaces == {<<<<0, 1>>, <<0, 1>>, <<0, 1>>>>, <<<<0, 2>>, <<0, PInf>>, <<0, 0>>>>}

DefaultParams ==
  [axis |-> 0, minDist |-> 0, maxDist |-> 0, workspace |-> <<>>, T |-> <<>>,
   TAfter |-> <<>>, voxelSize |-> 0, meanK |-> 0, stddevMulThresh |-> 0,
   distanceThreshold |-> 0, height |-> 0, width |-> 0, fileName |-> ""]

\* memory at the start of a call that is passed matrix T
Mem0(T) ==
  [cloud |-> cloud, normals |-> normals.v, viewPoints |-> viewPoints.v, T |-> T,
   tmp |-> <<>>, out |-> <<>>, pc |-> <<>>]

(***************************************************************************)
(* One call of a public function by the caller.  The caller's arrays after *)
(* the call are what the call left in memory under their names.            *)
(***************************************************************************)
IsCopy(e) == e.call = "CopyAndFree" \/ e.call = "CopyAndFreeInt"

\* how many times the events pass handle h to CopyAndFree / CopyAndFreeInt,
\* each of which copies the buffer out once and frees it once
Copies(ev, h) == Cardinality({i \in DOMAIN ev : IsCopy(ev[i]) /\ ev[i].h = h})

Commit(opName, p, r, h, issued, buffer) ==
  /\ op' = opName
  /\ params' = [p EXCEPT !.TAfter = r.mem.T]
  /\ events' = r.events
  /\ engOut' = buffer
  /\ result' = r.result
  /\ exc' = r.exc
  /\ cloud' = r.mem.cloud
  /\ normals' = [normals EXCEPT !.v = r.mem.normals]
  /\ viewPoints' = [viewPoints EXCEPT !.v = r.mem.viewPoints]
  /\ ledger' = IF issued
               THEN Append(ledger, [copies |-> Copies(r.events, h),
                                    frees |-> Copies(r.events, h)])
               ELSE ledger
  /\ UNCHANGED <<contig, given, pipeVars>>

\* the buffers the engine may hand out with a given status
Buffers(status, ok) == IF status < 0 THEN {<<>>} ELSE ok

CallComputeNormals ==
  /\ op = "none"
  /\ Len(ledger) < MaxHandles
  /\ \E status \in StatusCodes, save1 \in SaveCodes, save2 \in SaveCodes :
     \E buffer \in Buffers(status, [1..Len(cloud) -> EngNormalVecs]) :
       LET h == Len(ledger) + 1
           r == ComputeNormals(Mem0(<<>>), contig, viewPoints.some, h, status,
                               buffer, save1, save2)
       IN  Commit("ComputeNormals", DefaultParams, r, h, status >= 0, buffer)

CallFilterNans ==
  /\ op = "none"
  /\ Commit("FilterNans", DefaultParams,
            Outcome(<<>>, Returned(FilterNans(cloud), None), "", Mem0(<<>>)),
            0, FALSE, <<>>)

CallFilterNearAndFarPoints ==
  /\ op = "none"
  /\ \E rg \in Ranges :
    LET f == FilterNearAndFarPoints(rg[1], rg[2], rg[3], cloud, normals)
    IN  Commit("FilterNearAndFarPoints",
               [DefaultParams EXCEPT !.axis = rg[1], !.minDist = rg[2], !.maxDist = rg[3]],
               Outcome(<<>>, Returned(f.cloud, f.normals), "", Mem0(<<>>)),
               0, FALSE, <<>>)

CallFilterWorkspace ==
  /\ op = "none"
  /\ \E w \in Workspaces :
    LET f == FilterWorkspace(w, cloud, normals)
    IN  Commit("FilterWorkspace", [DefaultParams EXCEPT !.workspace = w],
               Outcome(<<>>, Returned(f.cloud, f.normals), "", Mem0(<<>>)),
               0, FALSE, <<>>)

CallTransform ==
  /\ op = "none"
  /\ \E T \in Transforms :
    LET f == Transform(T, cloud, normals)
    IN  Commit("Transform", [DefaultParams EXCEPT !.T = T],
               Outcome(<<>>, Returned(f.cloud, f.normals), "", Mem0(T)),
               0, FALSE, <<>>)

CallLoadPcd ==
  /\ op = "none"
  /\ Len(ledger) < MaxHandles
  /\ \E status \in StatusCodes : \E buffer \in Buffers(status, EngClouds) :
       LET h == Len(ledger) + 1
           r == LoadPcd("in.pcd", Mem0(<<>>), h, status, buffer)
       IN  Commit("LoadPcd", [DefaultParams EXCEPT !.fileName = "in.pcd"],
                  r, h, status >= 0, buffer)

CallSavePcd ==
  /\ op = "none"
  /\ \E status \in SaveCodes :
    Commit("SavePcd", [DefaultParams EXCEPT !.fileName = "out.pcd"],
           SavePcd("out.pcd", Mem0(<<>>), "cloud", contig, status), 0, FALSE, <<>>)

CallSaveOrganizedPcd ==
  /\ op = "none"
  /\ \E status \in SaveCodes, height \in 1..2, width \in 1..2 :
    Commit("SaveOrganizedPcd",
           [DefaultParams EXCEPT !.fileName = "out.pcd", !.height = height,
                                 !.width = width],
           SaveOrganizedPcd("out.pcd", Mem0(<<>>), contig, height, width, status),
           0, FALSE, <<>>)

CallVoxelize ==
  /\ op = "none"
  /\ Len(ledger) < MaxHandles
  /\ \E voxelSize \in {0, 1}, status \in StatusCodes :
     \E buffer \in EngClouds, aborts \in FreeAborts(status) :
       LET h == Len(ledger) + 1
           r == Voxelize(Mem0(<<>>), contig, voxelSize, h, status, buffer, aborts)
       IN  Commit("Voxelize", [DefaultParams EXCEPT !.voxelSize = voxelSize],
                  r, h, status >= 0, buffer)

CallRemoveStatisticalOutliers ==
  /\ op = "none"
  /\ Len(ledger) < MaxHandles
  /\ \E pr \in {<<1, 1>>, <<0, 1>>, <<1, 0>>}, status \in StatusCodes :
     \E buffer \in EngClouds, aborts \in FreeAborts(status) :
       LET h == Len(ledger) + 1
           r == RemoveStatisticalOutliers(Mem0(<<>>), contig, pr[1], pr[2], h,
                                          status, buffer, aborts)
       IN  Commit("RemoveStatisticalOutliers",
                  [DefaultParams EXCEPT !.meanK = pr[1], !.stddevMulThresh = pr[2]],
                  r, h, status >= 0, buffer)

CallSegmentPlane ==
  /\ op = "none"
  /\ Len(ledger) < MaxHandles
  /\ \E distanceThreshold \in {0, 1}, status \in StatusCodes :
     \E buffer \in EngIndices, aborts \in FreeAborts(status) :
       LET h == Len(ledger) + 1
           r == SegmentPlane(Mem0(<<>>), contig, distanceThreshold, h, status, buffer, aborts)
       IN  Commit("SegmentPlane",
                  [DefaultParams EXCEPT !.distanceThreshold = distanceThreshold],
                  r, h, status >= 0, buffer)

\* the caller drops the last call's result and is ready for the next call; a
\* process that aborted makes no further step
Discard ==
  /\ op # "none"
  /\ exc # "Aborted"
  /\ op' = "none"
  /\ params' = DefaultParams
  /\ events' = <<>>
  /\ engOut' = <<>>
  /\ result' = NoResult
  /\ exc' = ""
  /\ UNCHANGED <<cloud, normals, viewPoints, contig, ledger, given, pipeVars>>

PipeIdle ==
  /\ pCloud = <<>> /\ pNormals = None /\ origCloud = <<>> /\ origNormals = None
  /\ stages = <<>>

Init ==
  /\ op = "none"
  /\ cloud \in Clouds
  /\ normals \in {None, Some(NormalsFor(Len(cloud)))}
  /\ viewPoints \in {None} \cup {Some([i \in 1..Len(cloud) |-> o]) : o \in ViewOrigins}
  /\ contig \in BOOLEAN
  /\ params = DefaultParams
  /\ events = <<>>
  /\ engOut = <<>>
  /\ result = NoResult
  /\ exc = ""
  /\ ledger = <<>>
  /\ given = [cloud |-> cloud, normals |-> normals, viewPoints |-> viewPoints]
  /\ PipeIdle

Next ==
  \/ CallComputeNormals
  \/ CallFilterNans
  \/ CallFilterNearAndFarPoints
  \/ CallFilterWorkspace
  \/ CallTransform
  \/ CallLoadPcd
  \/ CallSavePcd
  \/ CallSaveOrganizedPcd
  \/ CallVoxelize
  \/ CallRemoveStatisticalOutliers
  \/ CallSegmentPlane
  \/ Discard

Spec == Init /\ [][Next]_vars

(***************************************************************************)
(* The filtering pipeline: the caller feeds each stage's outputs to the    *)
(* next stage, as in  cloud, normals = FilterWorkspace(w, cloud, normals). *)
(* FilterNans takes and returns the cloud alone, so the caller's normals   *)
(* stay as they were.  The two other filters index cloud and normals with  *)
(* one mask, built from the cloud, and are called with normals only when   *)
(* both have one length; Transform maps each array on its own, whatever    *)
(* their lengths.                                                          *)
(***************************************************************************)
Stage(kind, axis, lo, hi, w, T) ==
  [kind |-> kind, axis |-> axis, lo |-> lo, hi |-> hi, w |-> w, T |-> T]

Aligned == pNormals.some => Len(pNormals.v) = Len(pCloud)

PipeStep(st, c, n) ==
  /\ pCloud' = c
  /\ pNormals' = n
  /\ stages' = Append(stages, st)
  /\ UNCHANGED <<origCloud, origNormals, op, cloud, normals, viewPoints, contig,
                 params, events, engOut, result, exc, ledger, given>>

StageFilterNans ==
  /\ Len(stages) < MaxStages
  /\ PipeStep(Stage("FilterNans", 0, 0, 0, <<>>, <<>>), FilterNans(pCloud), pNormals)

StageFilterNearAndFarPoints ==
  /\ Len(stages) < MaxStages
  /\ Aligned
  /\ \E rg \in Ranges :
       LET f == FilterNearAndFarPoints(rg[1], rg[2], rg[3], pCloud, pNormals)
       IN  PipeStep(Stage("FilterNearAndFarPoints", rg[1], rg[2], rg[3], <<>>, <<>>),
                    f.cloud, f.normals)

StageFilterWorkspace ==
  /\ Len(stages) < MaxStages
  /\ Aligned
  /\ \E w \in Workspaces :
       LET f == FilterWorkspace(w, pCloud, pNormals)
       IN  PipeStep(Stage("FilterWorkspace", 0, 0, 0, w, <<>>), f.cloud, f.normals)

StageTransform ==
  /\ Len(stages) < MaxStages
  /\ \E T \in Transforms :
       LET f == Transform(T, pCloud, pNormals)
       IN  PipeStep(Stage("Transform", 0, 0, 0, <<>>, T), f.cloud, f.normals)

InitPipe ==
  /\ pCloud \in Clouds
  /\ pNormals \in {None, Some(NormalsFor(Len(pCloud)))}
  /\ origCloud = pCloud
  /\ origNormals = pNormals
  /\ stages = <<>>
  /\ op = "none" /\ cloud = <<>> /\ normals = None /\ viewPoints = None
  /\ contig = TRUE /\ params = DefaultParams /\ events = <<>> /\ engOut = <<>>
  /\ result = NoResult /\ exc = "" /\ ledger = <<>>
  /\ given = [cloud |-> <<>>, normals |-> None, viewPoints |-> None]

NextPipe ==
  \/ StageFilterNans
  \/ StageFilterNearAndFarPoints
  \/ StageFilterWorkspace
  \/ StageTransform

SpecPipe == InitPipe /\ [][NextPipe]_vars

(***************************************************************************)
(* Properties.                                                             *)
(***************************************************************************)
EngineOps == {"ComputeNormals", "LoadPcd", "Voxelize", "RemoveStatisticalOutliers",
              "SegmentPlane"}

\* the last call reached the engine's output-producing function
EngineCalled == op \in EngineOps /\ Len(events) >= 1
EngineFailed == EngineCalled /\ events[1].status < 0
EngineSucceeded == EngineCalled /\ events[1].status >= 0

\* C1: whenever an engine-backed operation gets a negative status from the
\* engine, the handle of that call is not passed to CopyAndFree or
\* CopyAndFreeInt, and the operation returns no container.
C1_FailedHandleUntouched ==
  EngineFailed =>
    /\ \A i \in DOMAIN events : ~(IsCopy(events[i]) /\ events[i].h = events[1].h)
    /\ ~result.returned

\* C2: every handle of a successful engine call, over any sequence of calls,
\* was copied out exactly once and freed exactly once; in the call itself the
\* container is allocated with as many rows as the engine's buffer holds, the
\* copy-and-free follows the allocation, nothing touches the handle after
\* it, and the rows copied out are the buffer's.
C2_CopiedAndReleasedOnce ==
  /\ \A k \in DOMAIN ledger : ledger[k].copies = 1 /\ ledger[k].frees = 1
  /\ EngineSucceeded =>
       /\ Len(ledger) >= 1
       /\ Len(events) >= 3
       /\ events[1].h = Len(ledger)
       /\ events[2] = Ev("empty", 0, Len(engOut), 0, "")
       /\ IsCopy(events[3]) /\ events[3].h = events[1].h /\ events[3].n = Len(engOut)
       /\ Copies(events, events[1].h) = 1
       /\ \A i \in 4..Len(events) : events[i].h # events[1].h
       /\ (op # "ComputeNormals" => result = Returned(engOut, None))

C2_Witness ==
  /\ op = "RemoveStatisticalOutliers"
  /\ EngineSucceeded
  /\ Len(ledger) = MaxHandles
  /\ Len(engOut) = MaxOut
  /\ result.returned

NoNanPoint(p) == \A j \in 1..3 : ~isnan(p[j])
AllFinitePoint(p) == \A j \in 1..3 : IsFinite(p[j])

\* C3 as stated: FilterNans returns, in order and unchanged, exactly the
\* points whose three coordinates are all finite.
C3_KeepsExactlyFinitePoints ==
  op = "FilterNans" => result = Returned(SelectSeq(cloud, AllFinitePoint), None)

\* C3 as amended: FilterNans returns, in order and unchanged, exactly the
\* points none of whose coordinates is NaN; points with an infinite coordinate
\* and no NaN are retained.
C3_KeepsExactlyNanFreePoints ==
  op = "FilterNans" => result = Returned(SelectSeq(cloud, NoNanPoint), None)

C3_Witness ==
  /\ op = "FilterNans"
  /\ \E i \in DOMAIN cloud : ~NoNanPoint(cloud[i])
  /\ \E i \in DOMAIN result.a : ~AllFinitePoint(result.a[i])

\* C5: SaveOrganizedPcd with height * width different from the number of
\* points raises a shape-mismatch error of its own and never calls the
\* engine's save.
C5_ShapeCheckedBeforeSave ==
  (op = "SaveOrganizedPcd" /\ params.height * params.width # Len(cloud)) =>
    /\ exc = "ShapeMismatch"
    /\ events = <<>>

\* theta_i is undefined or non-finite: the viewing vector of point i is the
\* zero vector or has a non-finite component
DegenerateView(i) ==
  LET d == [j \in 1..3 |-> Sub(viewPoints.v[i][j], cloud[i][j])]
  IN  (\A j \in 1..3 : d[j] = 0) \/ (\E j \in 1..3 : ~IsFinite(d[j]))

DumpAttempted == \E i \in DOMAIN events : events[i].call = "PclSavePcd"

\* C6: ComputeNormals with viewpoints and some non-finite theta_i raises the
\* numeric-degeneracy error after attempting the dump, and that is the error
\* the caller gets whether the dump's saves succeed or fail.
C6_DegeneracyErrorNotMasked ==
  (op = "ComputeNormals" /\ EngineSucceeded /\ viewPoints.some
     /\ \E i \in DOMAIN cloud : DegenerateView(i)) =>
    /\ DumpAttempted
    /\ ~result.returned
    /\ exc = "ThetaInvalid"

\* C7: Voxelize, RemoveStatisticalOutliers and SegmentPlane called with a
\* parameter that violates its precondition never call the engine and raise.
PreconditionViolated ==
  \/ op = "Voxelize" /\ params.voxelSize <= 0
  \/ op = "RemoveStatisticalOutliers"
       /\ (params.meanK < 1 \/ params.stddevMulThresh <= 0)
  \/ op = "SegmentPlane" /\ params.distanceThreshold <= 0

C7_PreconditionsChecked ==
  PreconditionViolated => (events = <<>> /\ exc # "" /\ ~result.returned)

\* C8: ComputeNormals without viewpoints, on a successful engine call,
\* returns (1,0,0) at every index where the engine's normal has a NaN or
\* infinite component and the engine's normal elsewhere; every returned
\* component is finite.
C8_SanitizedNormals ==
  (op = "ComputeNormals" /\ EngineSucceeded /\ ~viewPoints.some) =>
    /\ result.returned
    /\ Len(result.a) = Len(engOut)
    /\ \A i \in DOMAIN engOut :
         /\ result.a[i] = IF AllFinitePoint(engOut[i]) THEN engOut[i] ELSE <<1, 0, 0>>
         /\ AllFinitePoint(result.a[i])

C8_Witness ==
  /\ op = "ComputeNormals" /\ EngineSucceeded /\ ~viewPoints.some
  /\ \E i \in DOMAIN engOut : \E j \in 1..3 : isinf(engOut[i][j])
  /\ \E i \in DOMAIN engOut : AllFinitePoint(engOut[i])
  /\ result.returned

\* C10: after any call, successful or not, the caller's cloud, normals,
\* viewPoints and T hold the values the caller gave them.
C10_InputsUnchanged ==
  /\ cloud = given.cloud
  /\ normals = given.normals
  /\ viewPoints = given.viewPoints
  /\ params.TAfter = params.T

\* a call of ComputeNormals on a float32 C-contiguous cloud that sanitized
\* one normal and flipped another
C10_Witness ==
  /\ op = "ComputeNormals" /\ contig /\ viewPoints.some /\ result.returned
  /\ \E i \in DOMAIN engOut : ~AllFinitePoint(engOut[i])
  /\ \E i \in DOMAIN engOut :
       AllFinitePoint(engOut[i]) /\ result.a[i] # engOut[i]

(***************************************************************************)
(* Properties of the pipeline.                                             *)
(***************************************************************************)
\* v lies in the closed interval [lo, hi]
InClosed(v, lo, hi) == ~isnan(v) /\ lo <= v /\ v <= hi

\* the per-point predicate of a filter stage
StagePred(st, p) ==
  CASE st.kind = "FilterNans" -> NoNanPoint(p)
    [] st.kind = "FilterNearAndFarPoints" -> InClosed(p[st.axis + 1], st.lo, st.hi)
    [] st.kind = "FilterWorkspace" ->
         \A j \in 1..3 : InClosed(p[j], st.w[j][1], st.w[j][2])
    [] OTHER -> TRUE

Zip(c, n) == [i \in 1..Len(c) |-> <<c[i], n[i]>>]

\* what a stage does to a list of (point, normal) pairs, pair by pair
StepPairs(pairs, st) ==
  IF st.kind = "Transform"
  THEN [i \in 1..Len(pairs) |->
          <<TransformPoint(st.T, pairs[i][1]), RotateNormal(st.T, pairs[i][2])>>]
  ELSE LET Keep(q) == StagePred(st, q[1]) IN SelectSeq(pairs, Keep)

RECURSIVE ExpectedPairs(_, _)
ExpectedPairs(pairs, sts) ==
  IF sts = <<>> THEN pairs
  ELSE ExpectedPairs(StepPairs(pairs, Head(sts)), Tail(sts))

HasFilterNans == \E k \in DOMAIN stages : stages[k].kind = "FilterNans"
FilterOnly == \A k \in DOMAIN stages : stages[k].kind # "Transform"

\* C4: when cloud and normals of equal length go through any sequence of
\* FilterNearAndFarPoints, FilterWorkspace and Transform stages, each given
\* both, the outputs have equal length and output pair i is the image of the
\* input (point, normal) pair that output point i comes from.
C4_PairsStayAligned ==
  (origNormals.some /\ ~HasFilterNans) =>
    /\ pNormals.some
    /\ Len(pNormals.v) = Len(pCloud)
    /\ Zip(pCloud, pNormals.v) = ExpectedPairs(Zip(origCloud, origNormals.v), stages)

C4_Witness ==
  /\ origNormals.some /\ ~HasFilterNans
  /\ Len(stages) = 3
  /\ \E k \in DOMAIN stages : stages[k].kind = "FilterNearAndFarPoints"
  /\ \E k \in DOMAIN stages : stages[k].kind = "FilterWorkspace"
  /\ \E k \in DOMAIN stages : stages[k].kind = "Transform" /\ stages[k].T # Identity4
  /\ Len(origCloud) = 2 /\ Len(pCloud) = 1
  /\ pNormals.v[1] # origNormals.v[1]

\* the points (and their normals) that satisfy every stage's predicate, in
\* original order
KeepAll(p) == \A k \in DOMAIN stages : StagePred(stages[k], p)
ConjCloud == SelectSeq(origCloud, KeepAll)
ConjNormals ==
  LET Keep(q) == KeepAll(q[1])
      kept == SelectSeq(Zip(origCloud, origNormals.v), Keep)
  IN  [i \in 1..Len(kept) |-> kept[i][2]]

ApplyStage(st, c, n) ==
  CASE st.kind = "FilterNans" -> [cloud |-> FilterNans(c), normals |-> n]
    [] st.kind = "FilterNearAndFarPoints" ->
         FilterNearAndFarPoints(st.axis, st.lo, st.hi, c, n)
    [] st.kind = "FilterWorkspace" -> FilterWorkspace(st.w, c, n)
    [] OTHER -> Transform(st.T, c, n)

RECURSIVE RunStages(_, _, _)
RunStages(c, n, sts) ==
  IF sts = <<>> THEN [cloud |-> c, normals |-> n]
  ELSE LET r == ApplyStage(Head(sts), c, n)
       IN  RunStages(r.cloud, r.normals, Tail(sts))

\* C9 as stated: after any list of filter stages the retained points are the
\* points satisfying all the stages' predicates, and the retained normals are
\* the normals of those points.
C9_ConjunctionWithNormals ==
  FilterOnly =>
    /\ pCloud = ConjCloud
    /\ pNormals = IF origNormals.some THEN Some(ConjNormals) ELSE None

\* C9 as amended: for a cloud without normals and any list of filter stages,
\* and for a cloud with normals and any list of FilterNearAndFarPoints and
\* FilterWorkspace stages, the result is the points (and normals) satisfying
\* all the stages' predicates, in original order; every order of the stages
\* gives that same result; and FilterWorkspace applied twice equals once.
C9_ConjunctionAnyOrder ==
  (FilterOnly /\ (origNormals.some => ~HasFilterNans)) =>
    /\ pCloud = ConjCloud
    /\ pNormals = IF origNormals.some THEN Some(ConjNormals) ELSE None
    /\ \A f \in Permutations(DOMAIN stages) :
         RunStages(origCloud, origNormals, [i \in DOMAIN stages |-> stages[f[i]]])
           = [cloud |-> pCloud, normals |-> pNormals]
    /\ \A w \in Workspaces :
         LET once == FilterWorkspace(w, pCloud, pNormals)
         IN  FilterWorkspace(w, once.cloud, once.normals) = once

C9_Witness ==
  /\ ~origNormals.some
  /\ Len(stages) = 3
  /\ stages[1].kind = "FilterNearAndFarPoints"
  /\ stages[2].kind = "FilterNans"
  /\ stages[3].kind = "FilterWorkspace"
  /\ Len(origCloud) = 2 /\ Len(pCloud) = 1
  /\ Len(FilterNans(origCloud)) = 1

====
